---- MODULE Spec2Model ----
(***************************************************************************)
(* URL2URL product matching: the multi-candidate matcher                   *)
(* (apps/api/services/matcher_v2.py), the arbitration service client       *)
(* (apps/api/services/ai_validator.py), the job pipeline                   *)
(* (apps/api/services/job_runner.py) and its progress tracker              *)
(* (apps/api/services/progress.py).                                        *)
(*                                                                         *)
(* Scores and confidences are the code's floats in [0,1], kept here as     *)
(* integers in units of 1/10000 (One = 1.0), so that 0.08 * confidence and *)
(* 0.15 * confidence are exact for the confidences enumerated.             *)
(***************************************************************************)
EXTENDS Integers, Sequences, FiniteSets, TLC

One == 100 * 100

Max(a, b) == IF a >= b THEN a ELSE b
Min(a, b) == IF a <= b THEN a ELSE b

(***************************************************************************)
(* Bounds of the model.                                                    *)
(***************************************************************************)
\* match_product calls made on one matcher instance
MaxItems == 3
\* rows returned by one candidate search
MaxCands == 2
\* largest per-job arbitration cap enumerated
MaxCap == 2

(***************************************************************************)
(* Program constants.                                                      *)
(***************************************************************************)
NO_MATCH_THRESHOLD == 5000
TOP_CANDIDATES == 5
MIN_SCORE_FOR_VALIDATION == 5000
MAX_SCORE_FOR_VALIDATION == 9400
CONFIRMED_BOOST == 800
REJECTED_PENALTY == -1500
\* MultiCandidateMatcher, the scoring weights without and with the visual signal
SEMANTIC_WEIGHT == 6000
TOKEN_WEIGHT == 2500
ATTRIBUTE_WEIGHT == 1500
VISUAL_WEIGHT == 0
SEMANTIC_WEIGHT_WITH_VISUAL == 5000
TOKEN_WEIGHT_WITH_VISUAL == 2000
ATTRIBUTE_WEIGHT_WITH_VISUAL == 1500
VISUAL_WEIGHT_WITH_VISUAL == 1500
\* _compute_multi_signal_score, the penalty of line 579
BRAND_MISMATCH_PENALTY == 500

\* ValidationResultType
Verdicts == {"confirmed", "rejected", "uncertain"}
SKIPPED == "skipped"

\* ConfidenceTier
Tiers == {"exact_match", "high_confidence", "good_match", "likely_match",
          "manual_review", "no_match"}

(***************************************************************************)
(* Inputs enumerated.                                                      *)
(***************************************************************************)
\* combined scores _compute_multi_signal_score gives the rows of a search
ScoreSet == {4000, 5500, 7500, 9400, 9600}
\* confidences the arbitration service reports
ConfSet == {0, 5000, One}
\* arbitration windows [ai_validation_min_score, ai_validation_max_score]:
\* the MatcherConfig default, the job runner's default, and a wide one
Windows == {<<7000, 9400>>, <<7000, 9000>>, <<5000, 9700>>}
CapSet == -1 .. MaxCap

\* MatcherConfig, the fields of the arbitration gate
Configs ==
  [enable_ai_validation : BOOLEAN,
   window : Windows,
   max_ai_validations_per_job : CapSet]

\* what one call of the arbitration service can come to: a parsed verdict with
\* its confidence, or an exception raised by the provider call
LlmOutcomes ==
  [kind : Verdicts, confidence : ConfSet] \cup {[kind |-> "raise", confidence |-> 0]}

\* the rows one candidate search returns, already scored, in search order
RECURSIVE SeqsUpTo(_, _)
SeqsUpTo(S, n) ==
  IF n = 0 THEN {<<>>}
  ELSE LET shorter == SeqsUpTo(S, n - 1)
       IN shorter \cup {Append(q, x) : q \in {r \in shorter : Len(r) = n - 1}, x \in S}

(***************************************************************************)
(* Pure functions of the matcher and of the validator.                     *)
(***************************************************************************)
\* _get_confidence_tier with the boundaries excluded from the upper tier
TierStrictBoundaries(score) ==
  IF score > 9500 THEN "exact_match"
  ELSE IF score > 9000 THEN "high_confidence"
  ELSE IF score > 8000 THEN "good_match"
  ELSE IF score > 7000 THEN "likely_match"
  ELSE IF score > 5000 THEN "manual_review"
  ELSE "no_match"

\* MultiCandidateMatcher._get_confidence_tier
_get_confidence_tier(score) ==
  IF score >= 9500 THEN "exact_match"
  ELSE IF score >= 9000 THEN "high_confidence"
  ELSE IF score >= 8000 THEN "good_match"
  ELSE IF score >= 7000 THEN "likely_match"
  ELSE IF score >= 5000 THEN "manual_review"
  ELSE "no_match"

\* _adjust_score with the penalty applied to every verdict but CONFIRMED
AdjustPenalizesUncertain(current_score, validation) ==
  IF validation.kind = "confirmed"
    THEN Min(One, current_score + (CONFIRMED_BOOST * validation.confidence) \div One)
  ELSE Max(0, current_score + (REJECTED_PENALTY * validation.confidence) \div One)

\* _adjust_score without the clamp to [0, 1]
AdjustUnclamped(current_score, validation) ==
  IF validation.kind = "confirmed"
    THEN current_score + (CONFIRMED_BOOST * validation.confidence) \div One
  ELSE IF validation.kind = "rejected"
    THEN current_score + (REJECTED_PENALTY * validation.confidence) \div One
  ELSE current_score

\* AIValidator._adjust_score: the verdict is a record [kind, confidence]
_adjust_score(current_score, validation) ==
  IF validation.kind = "confirmed"
    THEN Min(One, current_score + (CONFIRMED_BOOST * validation.confidence) \div One)
  ELSE IF validation.kind = "rejected"
    THEN Max(0, current_score + (REJECTED_PENALTY * validation.confidence) \div One)
  ELSE current_score

\* AIValidator.should_validate
should_validate(enabled, score) ==
  IF ~enabled THEN FALSE
  ELSE IF score >= 9500 THEN FALSE
  ELSE IF score < MIN_SCORE_FOR_VALIDATION THEN FALSE
  ELSE MIN_SCORE_FOR_VALIDATION <= score /\ score <= MAX_SCORE_FOR_VALIDATION

\* list.sort(key=lambda x: x.score, reverse=True): stable, descending
RECURSIVE InsertDesc(_, _)
InsertDesc(x, sorted) ==
  IF sorted = <<>> THEN <<x>>
  ELSE IF Head(sorted).score >= x.score
    THEN <<Head(sorted)>> \o InsertDesc(x, Tail(sorted))
  ELSE <<x>> \o sorted

RECURSIVE SortDesc(_)
SortDesc(cands) ==
  IF cands = <<>> THEN <<>>
  ELSE InsertDesc(cands[Len(cands)], SortDesc(SubSeq(cands, 1, Len(cands) - 1)))

\* scored_candidates[:TOP_CANDIDATES]
TopSlice(cands) == SubSeq(cands, 1, Min(Len(cands), TOP_CANDIDATES))


(***************************************************************************)
(* State.                                                                  *)
(***************************************************************************)
VARIABLES
  \* ---- MultiCandidateMatcher (one instance) and its AIValidator ----
  config,               \* self.config
  validator_enabled,    \* AIValidator.enabled: enabled and an API key is set
  ai_validations_used,  \* self._ai_validations_used
  metrics,              \* self.metrics
  vmetrics,             \* AIValidator.metrics: total_validations counts the
                        \* provider calls issued, errors those that raised
  mpc,                  \* match_product: idle, awaiting the provider, returned
  scored_candidates,    \* match_product's local list while the call is awaited
  pre_ranked,           \* the list as sorted at line 384, before arbitration
  search,               \* what the candidate search of the call came to
  ai_response,          \* the response of the last call's arbitration, if any
  result                \* the MatchResult last returned

matcherVars ==
  <<config, validator_enabled, ai_validations_used, metrics, vmetrics,
    mpc, scored_candidates, pre_ranked, search, ai_response, result>>

VARIABLES
  \* ---- one application of a function of the matcher or the validator ----
  adj                   \* its arguments and, once applied, what it returned

VARIABLES
  \* ---- JobRunner.run_job on one job, its ProgressTracker and the store ----
  config_fields,        \* the fields the MatcherConfig dataclass declares
  job_config,           \* store: the config of the job's record
  products,             \* store: number of products of the job, per site
  pending,              \* store: those with crawl_status = 'pending', per site
  job_status,           \* store: the job's status
  stored,               \* store: the matches store_match_with_candidates wrote
  progress,             \* the JobProgress _persist wrote last (cache and store)
  tracker,              \* the run's ProgressTracker instance
  jpc,                  \* position of run_job
  site,                 \* the side _crawl_pending_products works on
  idx,                  \* the loop index i of the crawl or matching loop
  stored_count,         \* embeddings stored
  results,              \* run_job's local list of MatchResults
  counters,             \* run_job's live counters
  stats,                \* the statistics run_job returns
  error                 \* the message of the exception run_job ends with

jobVars ==
  <<config_fields, job_config, products, pending, job_status, stored, progress, tracker,
    jpc, site, idx, stored_count, results, counters, stats, error>>

vars == <<matcherVars, adj, jobVars>>

\* CandidateMatch; id 0 stands for None
NoCand ==
  [id |-> 0, score |-> 0, ai_validated |-> FALSE, ai_adjusted_score |-> -1,
   ai_reasoning |-> ""]

CandidateMatch(i, s) ==
  [id |-> i, score |-> s, ai_validated |-> FALSE, ai_adjusted_score |-> -1,
   ai_reasoning |-> ""]

\* AIValidationResponse; result "none" stands for no call of _run_ai_validation
NoResponse ==
  [result |-> "none", confidence |-> 0, adjusted_score |-> -1, reasoning |-> ""]

SkippedResponse(why) ==
  [result |-> SKIPPED, confidence |-> 0, adjusted_score |-> -1, reasoning |-> why]

\* MatchResult; source "none" stands for no result returned yet
NoResult ==
  [source |-> "none", best_match |-> NoCand, top_5_candidates |-> <<>>,
   confidence_tier |-> "no_match", explanation |-> <<>>, is_no_match |-> FALSE,
   no_match_reason |-> "", ai_validated |-> FALSE, ai_validation_result |-> "none",
   original_score |-> -1]

\* MultiCandidateMatcher.__init__, self.metrics
InitMetrics ==
  [total_matches |-> 0, ai_validations |-> 0, ai_confirmed |-> 0,
   ai_rejected |-> 0, ai_score_adjustments |-> 0]

\* AIValidator.__init__, self.metrics (the per-verdict tallies are left out)
InitValidatorMetrics == [total_validations |-> 0, skipped |-> 0, errors |-> 0]

\* MultiCandidateMatcher.__init__ with any MatcherConfig
InitMatcher ==
  /\ config \in Configs
  /\ validator_enabled \in BOOLEAN
  /\ ai_validations_used = 0
  /\ metrics = InitMetrics
  /\ vmetrics = InitValidatorMetrics
  /\ mpc = "idle"
  /\ scored_candidates = <<>>
  /\ pre_ranked = <<>>
  /\ search = "none"
  /\ ai_response = NoResponse
  /\ result = NoResult

(***************************************************************************)
(* match_product.                                                          *)
(***************************************************************************)
\* _should_ai_validate without the window check of lines 479-481
ShouldValidateNoWindow(score) ==
  IF ~config.enable_ai_validation THEN FALSE
  ELSE IF ai_validations_used >= Max(0, config.max_ai_validations_per_job) THEN FALSE
  ELSE TRUE

\* MultiCandidateMatcher._should_ai_validate; _ai_validator is set by __init__
\* exactly when config.enable_ai_validation holds
_should_ai_validate(score) ==
  IF ~config.enable_ai_validation THEN FALSE
  ELSE IF ai_validations_used >= Max(0, config.max_ai_validations_per_job) THEN FALSE
  ELSE config.window[1] <= score /\ score <= config.window[2]

\* MultiCandidateMatcher._generate_explanation (the brand comparison needs both
\* brands; the rows enumerated carry none)
_generate_explanation(best, confidence) ==
  IF confidence = "exact_match" THEN <<>>
  ELSE IF best.score < 9000 THEN <<"Score">>
  ELSE <<"Minor variations detected">>

\* match_product, lines 335-344
EmptyCatalogResult ==
  [source |-> "src", best_match |-> NoCand, top_5_candidates |-> <<>>,
   confidence_tier |-> "no_match", explanation |-> <<"No products found in catalog">>,
   is_no_match |-> TRUE, no_match_reason |-> "Empty catalog or no embeddings generated",
   ai_validated |-> FALSE, ai_validation_result |-> "none", original_score |-> -1]

\* match_product, lines 390-400
BelowThresholdResult ==
  [source |-> "src", best_match |-> NoCand, top_5_candidates |-> <<>>,
   confidence_tier |-> "no_match", explanation |-> <<"below 50% threshold">>,
   is_no_match |-> TRUE, no_match_reason |-> "Best candidate",
   ai_validated |-> FALSE, ai_validation_result |-> "none", original_score |-> -1]

\* match_product, lines 409-414: the response counts as a used validation
Counted(resp) == resp.result \notin {"none", SKIPPED}

\* match_product, lines 417-419: the response moves the best score
Adjusts(scored, resp) ==
  /\ Counted(resp)
  /\ resp.adjusted_score # -1
  /\ resp.adjusted_score # scored[1].score

\* the best score updated in place with the re-sort of line 437 left out
RerankedInPlace(scored, resp) ==
  IF Adjusts(scored, resp)
    THEN [scored EXCEPT ![1] =
           [@ EXCEPT !.ai_validated = TRUE,
                     !.ai_adjusted_score = resp.adjusted_score,
                     !.ai_reasoning = resp.reasoning,
                     !.score = resp.adjusted_score]]
  ELSE scored

\* match_product, lines 424-439: best is updated in place and the list re-sorted
Reranked(scored, resp) ==
  IF Adjusts(scored, resp)
    THEN SortDesc([scored EXCEPT ![1] =
           [@ EXCEPT !.ai_validated = TRUE,
                     !.ai_adjusted_score = resp.adjusted_score,
                     !.ai_reasoning = resp.reasoning,
                     !.score = resp.adjusted_score]])
  ELSE scored

\* match_product, lines 441-459
BuildResult(scored, resp) ==
  LET ranked == Reranked(scored, resp)
      best == ranked[1]
      confidence == _get_confidence_tier(best.score)
      explanation == _generate_explanation(best, confidence)
      ai_validated == Counted(resp)
  IN [source |-> "src",
      best_match |-> best,
      top_5_candidates |-> TopSlice(ranked),
      confidence_tier |-> confidence,
      explanation |-> IF ai_validated /\ best.ai_reasoning # ""
                        THEN explanation \o <<"AI", best.ai_reasoning>>
                        ELSE explanation,
      is_no_match |-> FALSE,
      no_match_reason |-> "",
      ai_validated |-> ai_validated,
      ai_validation_result |-> IF ai_validated THEN resp.result ELSE "none",
      original_score |-> IF ai_validated THEN scored[1].score ELSE -1]

\* match_product, lines 411-434: the counters after the response
MetricsAfter(m, scored, resp) ==
  [m EXCEPT
     !.ai_validations = @ + (IF Counted(resp) THEN 1 ELSE 0),
     !.ai_score_adjustments = @ + (IF Adjusts(scored, resp) THEN 1 ELSE 0),
     !.ai_confirmed =
        @ + (IF Adjusts(scored, resp) /\ resp.result = "confirmed" THEN 1 ELSE 0),
     !.ai_rejected =
        @ + (IF Adjusts(scored, resp) /\ resp.result = "rejected" THEN 1 ELSE 0)]

\* match_product from line 409 to its return, given the arbitration response
Conclude(m, scored, resp) ==
  /\ ai_validations_used' = ai_validations_used + (IF Counted(resp) THEN 1 ELSE 0)
  /\ metrics' = MetricsAfter(m, scored, resp)
  /\ ai_response' = resp
  /\ result' = BuildResult(scored, resp)
  /\ scored_candidates' = <<>>
  /\ mpc' = "returned"

\* the rows of a search as CandidateMatch objects, lines 346-381
Scored(rows) == [i \in 1 .. Len(rows) |-> CandidateMatch(i, rows[i])]

\* search_candidates answering with the rows it had read when the lookup failed
SearchKeepsRowsOnFailure(found, fails) == found

\* MultiCandidateMatcher.search_candidates: the rows found, scored by
\* similarity, or the empty list when the lookup raises
search_candidates(found, fails) == IF fails THEN <<>> ELSE found

\* what the search of a call came to
SearchOutcome(found, fails) ==
  IF fails THEN "failed" ELSE IF found = <<>> THEN "empty" ELSE "found"

\* match_product from its entry to its first await of the provider, or to its
\* return when no provider call is made
MatchProduct(found, fails) ==
  /\ mpc = "idle"
  /\ metrics.total_matches < MaxItems
  /\ LET m == [metrics EXCEPT !.total_matches = @ + 1]
         rows == search_candidates(found, fails)
         scored == SortDesc(Scored(rows))
     IN /\ pre_ranked' = scored
        /\ search' = SearchOutcome(found, fails)
        /\ IF rows = <<>>
             THEN /\ result' = EmptyCatalogResult
                  /\ metrics' = m
                  /\ ai_response' = NoResponse
                  /\ mpc' = "returned"
                  /\ UNCHANGED <<ai_validations_used, vmetrics,
                                 scored_candidates>>
           ELSE IF scored[1].score < NO_MATCH_THRESHOLD
             THEN /\ result' = BelowThresholdResult
                  /\ metrics' = m
                  /\ ai_response' = NoResponse
                  /\ mpc' = "returned"
                  /\ UNCHANGED <<ai_validations_used, vmetrics,
                                 scored_candidates>>
           ELSE IF ~_should_ai_validate(scored[1].score)
             THEN /\ Conclude(m, scored, NoResponse)
                  /\ UNCHANGED vmetrics
           \* validate_match, lines 180-194
           ELSE IF ~validator_enabled
             THEN /\ Conclude(m, scored, SkippedResponse("AI validation disabled"))
                  /\ vmetrics' = [vmetrics EXCEPT !.skipped = @ + 1]
           ELSE IF ~should_validate(validator_enabled, scored[1].score)
             THEN /\ Conclude(m, scored, SkippedResponse("outside validation range"))
                  /\ vmetrics' = [vmetrics EXCEPT !.skipped = @ + 1]
           \* validate_match, lines 196-207: the call is issued
           ELSE /\ vmetrics' = [vmetrics EXCEPT !.total_validations = @ + 1]
                /\ metrics' = m
                /\ scored_candidates' = scored
                /\ mpc' = "llm"
                /\ ai_response' = NoResponse
                /\ result' = NoResult
                /\ UNCHANGED ai_validations_used
  /\ UNCHANGED <<config, validator_enabled, adj, jobVars>>

\* validate_match, lines 209-235, on what the provider call came to
ResponseOf(outcome, current_score) ==
  IF outcome.kind = "raise" THEN SkippedResponse("Validation error")
  ELSE [result |-> outcome.kind, confidence |-> outcome.confidence,
        adjusted_score |-> _adjust_score(current_score, outcome),
        reasoning |-> "why"]

\* the provider call returns and, when the verdict brings another candidate to
\* the top, that candidate is sent to the provider in its turn
LlmReturnRevalidates(outcome) ==
  /\ mpc = "llm"
  /\ LET resp == ResponseOf(outcome, scored_candidates[1].score)
         ranked == Reranked(scored_candidates, resp)
     IN IF ranked[1].id # scored_candidates[1].id
          THEN /\ scored_candidates' = ranked
               /\ vmetrics' = [vmetrics EXCEPT !.total_validations = @ + 1]
               /\ UNCHANGED <<ai_validations_used, metrics, ai_response, result, mpc>>
          ELSE /\ Conclude(metrics, scored_candidates, resp)
               /\ vmetrics' = [vmetrics EXCEPT
                                 !.errors = @ + (IF outcome.kind = "raise" THEN 1 ELSE 0)]
  /\ UNCHANGED <<config, validator_enabled, pre_ranked, search, adj, jobVars>>

\* the provider call returns or raises, and match_product runs to its return
LlmReturn(outcome) ==
  /\ mpc = "llm"
  /\ Conclude(metrics, scored_candidates,
              ResponseOf(outcome, scored_candidates[1].score))
  /\ vmetrics' = [vmetrics EXCEPT
                     !.errors = @ + (IF outcome.kind = "raise" THEN 1 ELSE 0)]
  /\ UNCHANGED <<config, validator_enabled, pre_ranked, search, adj, jobVars>>

\* the caller takes the MatchResult match_product returned (job_runner.py line
\* 239, quick_match.py line 49) before it calls again
TakeResult ==
  /\ mpc = "returned"
  /\ mpc' = "idle"
  /\ result' = NoResult
  /\ pre_ranked' = <<>>
  /\ search' = "none"
  /\ ai_response' = NoResponse
  /\ UNCHANGED <<config, validator_enabled, ai_validations_used, metrics,
                 vmetrics, scored_candidates, adj, jobVars>>

NextMatcher ==
  \/ \E found \in SeqsUpTo(ScoreSet, MaxCands), fails \in BOOLEAN :
       MatchProduct(found, fails)
  \/ \E outcome \in LlmOutcomes : LlmReturn(outcome)
  \/ TakeResult

(***************************************************************************)
(* One application of AIValidator._adjust_score.                           *)
(***************************************************************************)
\* steps of the score grid the arguments are drawn from
ScoreGrid == 20
\* the scores next to the boundaries of the tiers
TierEdges == {4999, 5000, 6999, 7000, 7999, 8000, 8999, 9000, 9499, 9500}
AdjScores == {(i * One) \div ScoreGrid : i \in 0 .. ScoreGrid} \cup TierEdges
AdjConfidences == {0, 2500, 5000, 7500, One}
AdjKinds == Verdicts \cup {SKIPPED}

AdjIdle ==
  [score |-> 0, validation |-> [kind |-> SKIPPED, confidence |-> 0], out |-> -1,
   tier |-> "none"]

InitAdjust ==
  adj \in [score : AdjScores,
           validation : [kind : AdjKinds, confidence : AdjConfidences],
           out : {-1},
           tier : {"none"}]

\* validate_match, line 213: adjusted_score = self._adjust_score(current_score, result)
ApplyAdjust ==
  /\ adj.out = -1
  /\ adj' = [adj EXCEPT !.out = _adjust_score(adj.score, adj.validation)]
  /\ UNCHANGED <<matcherVars, jobVars>>

\* match_product, line 442: confidence = self._get_confidence_tier(best.score)
Classify ==
  /\ adj.tier = "none"
  /\ adj' = [adj EXCEPT !.tier = _get_confidence_tier(adj.score)]
  /\ UNCHANGED <<matcherVars, jobVars>>

NextAdjust == ApplyAdjust \/ Classify

(***************************************************************************)
(* ProgressTracker (services/progress.py).                                 *)
(***************************************************************************)
\* ProgressStage
Stages ==
  {"pending", "started", "crawling_site_a", "crawling_site_b",
   "generating_embeddings", "matching", "completed", "failed"}

TerminalStages == {"completed", "failed"}

\* the counters run_job puts in its progress messages; -1 in a message without
NoCounters ==
  [processed |-> -1, matched |-> -1, high_confidence |-> -1, no_match |-> -1,
   needs_review |-> -1, embedding_failed |-> -1]

Message(text) == [text |-> text, detail |-> "", counters |-> NoCounters]

\* ProgressTracker.__init__
InitTracker ==
  [current_stage |-> "pending", items_processed |-> 0, total |-> 0,
   last_update_set |-> FALSE]

\* JobProgress defaults: no progress written yet
InitProgress ==
  [stage |-> "pending", current |-> 0, total |-> 0, message |-> Message("")]

\* ProgressTracker._persist: the JobProgress left in the cache and in the store
Persist(stage, current, total, message) ==
  [stage |-> stage, current |-> current, total |-> total, message |-> message]

\* ProgressTracker.start_stage: the tracker after it
StartStageTracker(t, stage, total) ==
  [t EXCEPT !.current_stage = stage, !.items_processed = 0, !.total = total]

\* ProgressTracker.start_stage: what it writes
StartStageProgress(stage, total, message) == Persist(stage, 0, total, message)

\* ProgressTracker.update_progress: a call is throttled only when it is not
\* forced and an earlier update was written less than _update_interval ago
MayThrottle(t, force, throttled) == throttled => (~force /\ t.last_update_set)

UpdateTracker(t, current, throttled) ==
  [t EXCEPT !.items_processed = current,
            !.last_update_set = IF throttled THEN @ ELSE TRUE]

UpdateProgress(t, p, current, message, throttled) ==
  IF throttled THEN p ELSE Persist(t.current_stage, current, t.total, message)

\* ProgressTracker.complete_stage
CompleteStageProgress(t, message) ==
  Persist(t.current_stage, t.total, t.total, message)

\* fail writing the stage the tracker is in instead of FAILED
FailKeepsStage(t, error_message) ==
  Persist(t.current_stage, t.items_processed, t.total,
          [text |-> "Failed: ", detail |-> error_message, counters |-> NoCounters])

\* fail writing a fixed message instead of the error's
FailGenericMessage(t, error_message) ==
  Persist("failed", t.items_processed, t.total, Message("Job failed"))

\* ProgressTracker.fail
FailProgress(t, error_message) ==
  Persist("failed", t.items_processed, t.total,
          [text |-> "Failed: ", detail |-> error_message, counters |-> NoCounters])

\* ProgressTracker.finish_job
FinishJobProgress(message) == Persist("completed", 1, 1, message)

(***************************************************************************)
(* JobRunner.run_job (services/job_runner.py).                             *)
(***************************************************************************)
\* products of one side of a job
MaxProducts == 2

Sites == {"site_a", "site_b"}

\* the fields of the MatcherConfig dataclass, matcher_v2.py lines 42-59
MatcherConfigFields ==
  {"enable_ai_validation", "ai_validation_min_score", "ai_validation_max_score",
   "max_ai_validations_per_job", "enable_image_matching", "semantic_weight",
   "token_weight", "attribute_weight", "visual_weight", "embed_enriched_text",
   "token_norm_v2"}

\* the keywords run_job passes to MatcherConfig, job_runner.py lines 147-160
RunnerKeywords ==
  {"enable_ai_validation", "ai_validation_min_score", "ai_validation_max_score",
   "max_ai_validations_per_job", "enable_image_matching", "embed_enriched_text",
   "token_norm_v2", "use_brand_ontology", "use_category_ontology",
   "use_variant_extractor", "use_ocr_text", "max_image_comparisons_per_job"}

\* MatcherConfig as the source declares it, and as run_job supposes it: with that
\* one the lines of run_job after line 162 can be run at all
Builds == {MatcherConfigFields, MatcherConfigFields \cup RunnerKeywords}

SourceBuild == config_fields = MatcherConfigFields

\* the messages of the exceptions run_job can end with
NoSourceError == "No source products (Site A) found for job"
NoTargetError == "No target products (Site B) found for job"
ConfigError == "MatcherConfig.__init__() got an unexpected keyword argument"
EmbeddingError == "generate_embeddings_batch raised"
MatchError == "match_product raised"
StoreError == "store_match_with_candidates raised"
ItemErrors == {MatchError, StoreError}

ZeroCounters ==
  [processed |-> 0, matched |-> 0, high_confidence |-> 0, no_match |-> 0,
   needs_review |-> 0, embedding_failed |-> 0]

NoStats == [matches_found |-> -1, no_match |-> -1, high_confidence |-> -1]

\* what a metrics read gives when the config holds no 'metrics'
NoMetrics == [total_matches |-> -1]

\* JobConfig() (models/schemas.py lines 73-76): the config of a job created
\* with no value of its own for arbitration
DefaultJobConfig ==
  [ai_validation_enabled |-> FALSE, ai_validation_min |-> 7000,
   ai_validation_max |-> 9000, ai_validation_cap |-> 100, metrics |-> NoMetrics]

\* the configs of the jobs run: the default one, and one that switches
\* arbitration on with a window and a cap of its own
JobConfigs ==
  {DefaultJobConfig,
   [ai_validation_enabled |-> TRUE, ai_validation_min |-> 5000,
    ai_validation_max |-> 9400, ai_validation_cap |-> 1, metrics |-> NoMetrics]}

\* SupabaseService._parse_job: the config of the row read into a JobConfig, a
\* model with no field 'metrics', which is no dict
_parse_job(row_config) ==
  [is_dict |-> FALSE, config |-> [row_config EXCEPT !.metrics = NoMetrics]]

\* get_job_metrics (routers/jobs.py): config.metrics of the job read, {} when
\* the config read is no dict
get_job_metrics(row_config) ==
  LET job == _parse_job(row_config)
  IN IF job.is_dict THEN job.config.metrics ELSE NoMetrics

InitJob ==
  /\ config_fields \in Builds
  /\ job_config \in JobConfigs
  /\ products \in [Sites -> 0 .. MaxProducts]
  /\ pending \in [Sites -> 0 .. MaxProducts]
  /\ \A s \in Sites : pending[s] <= products[s]
  /\ job_status = "pending"
  /\ stored = <<>>
  /\ progress = InitProgress
  /\ tracker = InitTracker
  /\ jpc = "start"
  /\ site = "site_a"
  /\ idx = 0
  /\ stored_count = 0
  /\ results = <<>>
  /\ counters = ZeroCounters
  /\ stats = NoStats
  /\ error = ""

\* no run of a job: the state of the job part while the matcher alone is exercised
JobIdle ==
  /\ config_fields = MatcherConfigFields
  /\ job_config = DefaultJobConfig
  /\ products = [s \in Sites |-> 0]
  /\ pending = [s \in Sites |-> 0]
  /\ job_status = "pending"
  /\ stored = <<>>
  /\ progress = InitProgress
  /\ tracker = InitTracker
  /\ jpc = "none"
  /\ site = "site_a"
  /\ idx = 0
  /\ stored_count = 0
  /\ results = <<>>
  /\ counters = ZeroCounters
  /\ stats = NoStats
  /\ error = ""

\* run_job, lines 77-91: status RUNNING, stage STARTED
StartRun ==
  /\ jpc = "start"
  /\ job_status' = "running"
  /\ tracker' = StartStageTracker(tracker, "started", 1)
  /\ progress' = StartStageProgress("started", 1, Message("Initializing job..."))
  /\ jpc' = "get_products"
  /\ UNCHANGED <<config_fields, job_config, products, pending, stored, site, idx, stored_count,
                 results, counters, stats, error, matcherVars, adj>>

\* the check of lines 106-107 alone
CatalogErrorSourceOnly(na, nb) == IF na = 0 THEN NoSourceError ELSE ""

\* run_job, lines 106-109: the ValueError raised for an empty side, "" for none
CatalogError(na, nb) ==
  IF na = 0 THEN NoSourceError
  ELSE IF nb = 0 THEN NoTargetError
  ELSE ""

\* run_job, lines 93-109
GetProducts ==
  /\ jpc = "get_products"
  /\ LET e == CatalogError(products["site_a"], products["site_b"])
     IN IF e # ""
          THEN error' = e /\ jpc' = "except"
          ELSE error' = error /\ jpc' = "crawl"
  /\ UNCHANGED <<config_fields, job_config, products, pending, job_status, stored, progress,
                 tracker, site, idx, stored_count, results, counters, stats,
                 matcherVars, adj>>

CrawlStage(s) == IF s = "site_a" THEN "crawling_site_a" ELSE "crawling_site_b"

\* run_job, lines 112-117: after Site A comes Site B, after Site B line 120
AfterCrawl(s) ==
  IF s = "site_a"
    THEN site' = "site_b" /\ jpc' = "crawl"
    ELSE site' = site /\ jpc' = "configure"

\* _crawl_pending_products, lines 351-376
CrawlBegin ==
  /\ jpc = "crawl"
  /\ IF pending[site] = 0
       THEN /\ AfterCrawl(site)
            /\ UNCHANGED <<tracker, progress, idx>>
       ELSE /\ tracker' = StartStageTracker(tracker, CrawlStage(site), pending[site])
            /\ progress' = StartStageProgress(CrawlStage(site), pending[site],
                                              Message("Crawling products"))
            /\ idx' = 0
            /\ jpc' = "crawling"
            /\ site' = site
  /\ UNCHANGED <<config_fields, job_config, products, pending, job_status, stored, stored_count,
                 results, counters, stats, error, matcherVars, adj>>

\* _crawl_pending_products, lines 380-411: one pending product; the crawl may
\* fail and the update of the product may fail, neither stops the loop
CrawlItem(throttled, updated) ==
  /\ jpc = "crawling"
  /\ idx < tracker.total
  /\ MayThrottle(tracker, FALSE, throttled)
  /\ tracker' = UpdateTracker(tracker, idx + 1, throttled)
  /\ progress' = UpdateProgress(tracker, progress, idx + 1, Message("Crawling"),
                                throttled)
  /\ pending' = IF updated THEN [pending EXCEPT ![site] = @ - 1] ELSE pending
  /\ idx' = idx + 1
  /\ UNCHANGED <<config_fields, job_config, products, job_status, stored, jpc, site,
                 stored_count, results, counters, stats, error, matcherVars, adj>>

\* _crawl_pending_products, line 413
CrawlEnd ==
  /\ jpc = "crawling"
  /\ idx = tracker.total
  /\ progress' = CompleteStageProgress(tracker, Message("Crawled products"))
  /\ AfterCrawl(site)
  /\ UNCHANGED <<config_fields, job_config, products, pending, job_status, stored, tracker, idx,
                 stored_count, results, counters, stats, error, matcherVars, adj>>

\* _crawl_pending_products, lines 415-422: the browser fails to start, to open a
\* page or to close; the error is logged and the job goes on
CrawlError ==
  /\ jpc = "crawling"
  /\ tracker' = UpdateTracker(tracker, tracker.total, FALSE)
  /\ progress' = UpdateProgress(tracker, progress, tracker.total,
                                Message("Crawling completed with errors"), FALSE)
  /\ AfterCrawl(site)
  /\ UNCHANGED <<config_fields, job_config, products, pending, job_status, stored, idx,
                 stored_count, results, counters, stats, error, matcherVars, adj>>

\* run_job, lines 142-162: the matcher run_job builds, from the defaults of the
\* except branch, and puts in place of the singleton
JobMatcherConfig ==
  [enable_ai_validation |-> FALSE, window |-> <<7000, 9000>>,
   max_ai_validations_per_job |-> 100]

\* run_job, lines 120-162: `job` is no name of run_job, so the try block of lines
\* 128-140 raises NameError and lines 142-145 set the defaults; MatcherConfig
\* then raises TypeError unless it declares every keyword it is given
ConfigureMatcher ==
  /\ jpc = "configure"
  /\ IF RunnerKeywords \subseteq config_fields
       THEN /\ config' = JobMatcherConfig
            /\ validator_enabled' = FALSE
            /\ ai_validations_used' = 0
            /\ metrics' = InitMetrics
            /\ vmetrics' = InitValidatorMetrics
            /\ error' = error
            /\ jpc' = "embed"
       ELSE /\ error' = ConfigError
            /\ jpc' = "except"
            /\ UNCHANGED <<config, validator_enabled, ai_validations_used,
                           metrics, vmetrics>>
  /\ UNCHANGED <<config_fields, job_config, products, pending, job_status, stored, progress,
                 tracker, site, idx, stored_count, results, counters, stats,
                 mpc, scored_candidates, pre_ranked, search, ai_response, result, adj>>

\* run_job, lines 165-172
EmbedBegin ==
  /\ jpc = "embed"
  /\ tracker' = StartStageTracker(tracker, "generating_embeddings", products["site_b"])
  /\ progress' = StartStageProgress("generating_embeddings", products["site_b"],
                                    Message("Generating embeddings"))
  /\ jpc' = "embedding"
  /\ UNCHANGED <<config_fields, job_config, products, pending, job_status, stored, site, idx,
                 stored_count, results, counters, stats, error, matcherVars, adj>>

\* no embedding reported as failed
EmbeddingFailedNone(total, n) == 0

\* run_job, line 189: the embedding_failed counter
EmbeddingFailed(total, n) == Max(total - n, 0)

\* run_job, lines 175-194: generate_embeddings_batch raises, or n of the
\* embeddings are stored (store_embeddings skips the ones it fails to store)
EmbedBatch(n, raises) ==
  /\ jpc = "embedding"
  /\ n <= products["site_b"]
  /\ IF raises
       THEN /\ error' = EmbeddingError
            /\ jpc' = "except"
            /\ UNCHANGED <<stored_count, tracker, progress>>
       ELSE /\ stored_count' = n
            /\ tracker' = UpdateTracker(tracker, n, FALSE)
            /\ progress' =
                 UpdateProgress(tracker, progress, n,
                   [text |-> "Generated embeddings", detail |-> "",
                    counters |-> [ZeroCounters EXCEPT !.embedding_failed =
                                    EmbeddingFailed(products["site_b"], n)]],
                   FALSE)
            /\ jpc' = "embedded"
            /\ error' = error
  /\ UNCHANGED <<config_fields, job_config, products, pending, job_status, stored, site, idx,
                 results, counters, stats, matcherVars, adj>>

\* run_job, line 195
EmbedComplete ==
  /\ jpc = "embedded"
  /\ progress' = CompleteStageProgress(tracker, Message("Embeddings generated"))
  /\ jpc' = "match_begin"
  /\ UNCHANGED <<config_fields, job_config, products, pending, job_status, stored, tracker,
                 site, idx, stored_count, results, counters, stats, error,
                 matcherVars, adj>>

\* run_job, lines 201-216
MatchBegin ==
  /\ jpc = "match_begin"
  /\ tracker' = StartStageTracker(tracker, "matching", products["site_a"])
  /\ progress' = StartStageProgress("matching", products["site_a"],
                                    Message("Matching products"))
  /\ results' = <<>>
  /\ counters' = [ZeroCounters EXCEPT !.embedding_failed =
                    EmbeddingFailed(products["site_b"], stored_count)]
  /\ idx' = 0
  /\ jpc' = "match_loop"
  /\ UNCHANGED <<config_fields, job_config, products, pending, job_status, stored, site,
                 stored_count, stats, error, matcherVars, adj>>

\* run_job, lines 220-234: the progress update that opens the turn of item i
MatchProgress(throttled) ==
  /\ jpc = "match_loop"
  /\ idx < products["site_a"]
  /\ MayThrottle(tracker, FALSE, throttled)
  /\ tracker' = UpdateTracker(tracker, idx + 1, throttled)
  /\ progress' =
       UpdateProgress(tracker, progress, idx + 1,
         [text |-> "Matching product", detail |-> "",
          counters |-> [counters EXCEPT !.processed = idx + 1]],
         throttled)
  /\ jpc' = "match_call"
  /\ UNCHANGED <<config_fields, job_config, products, pending, job_status, stored, site, idx,
                 stored_count, results, counters, stats, error, matcherVars, adj>>

\* the rows the search of one source item of a job returns
JobRows == {<<>>, <<4000>>, <<7500>>, <<8500>>, <<9600, 5500>>}

\* match_product on the matcher of run_job, whose arbitration is off
JobMatchResult(rows) ==
  LET scored == SortDesc(Scored(rows))
  IN IF rows = <<>> THEN EmptyCatalogResult
     ELSE IF scored[1].score < NO_MATCH_THRESHOLD THEN BelowThresholdResult
     ELSE BuildResult(scored, NoResponse)

\* the exception of an item logged and the loop going on with the next item
ItemRaisesSkipped(e, i) == [jpc |-> "match_loop", error |-> e, idx |-> i + 1]

\* run_job, lines 239-248: no try encloses the turn of an item, so its
\* exception leaves the loop for the handler of line 323
ItemRaises(e, i) == [jpc |-> "except", error |-> e, idx |-> i]

\* run_job, lines 239-245
MatchCall(rows, raises) ==
  /\ jpc = "match_call"
  /\ metrics' = [metrics EXCEPT !.total_matches = @ + 1]
  /\ IF raises
       THEN LET after == ItemRaises(MatchError, idx)
            IN /\ jpc' = after.jpc
               /\ error' = after.error
               /\ idx' = after.idx
               /\ results' = results
       ELSE /\ results' = Append(results, JobMatchResult(rows))
            /\ jpc' = "store"
            /\ UNCHANGED <<error, idx>>
  /\ UNCHANGED <<config_fields, job_config, products, pending, job_status, stored, progress,
                 tracker, site, stored_count, counters, stats, config,
                 validator_enabled, ai_validations_used, vmetrics, mpc,
                 scored_candidates, pre_ranked, search, ai_response, result, adj>>

\* the auto-status approving a good match as well
AutoStatusApprovesGood(r) ==
  IF r.is_no_match \/ r.confidence_tier = "no_match" THEN "rejected"
  ELSE IF r.confidence_tier \in {"exact_match", "high_confidence", "good_match"}
    THEN "approved"
  ELSE "pending"

\* _store_match_result, lines 464-470
AutoStatus(r) ==
  IF r.is_no_match \/ r.confidence_tier = "no_match" THEN "rejected"
  ELSE IF r.confidence_tier \in {"exact_match", "high_confidence"} THEN "approved"
  ELSE "pending"

\* _store_match_result, lines 440-478: the row written, auto saying whether the
\* status update went through
StoredRow(i, r, auto) ==
  [item |-> i,
   matched |-> r.best_match.id,
   score |-> r.best_match.score,
   confidence_tier |-> r.confidence_tier,
   top_5_candidates |-> r.top_5_candidates,
   is_no_match |-> r.is_no_match,
   status |-> IF auto THEN AutoStatus(r) ELSE "pending"]

\* run_job, lines 251-260
CountersAfter(c, r) ==
  IF r.is_no_match
    THEN [c EXCEPT !.no_match = @ + 1, !.needs_review = @ + 1]
  ELSE IF r.confidence_tier \in {"exact_match", "high_confidence"}
    THEN [c EXCEPT !.matched = @ + 1, !.high_confidence = @ + 1]
  ELSE IF r.confidence_tier \in {"likely_match", "manual_review"}
    THEN [c EXCEPT !.matched = @ + 1, !.needs_review = @ + 1]
  ELSE [c EXCEPT !.matched = @ + 1]

\* run_job, lines 248-264
StoreResult(ok, auto) ==
  /\ jpc = "store"
  /\ IF ok
       THEN /\ stored' = Append(stored, StoredRow(idx + 1, results[Len(results)], auto))
            /\ counters' = CountersAfter(counters, results[Len(results)])
            /\ idx' = idx + 1
            /\ jpc' = "match_loop"
            /\ error' = error
       ELSE LET after == ItemRaises(StoreError, idx)
            IN /\ jpc' = after.jpc
               /\ error' = after.error
               /\ idx' = after.idx
               /\ UNCHANGED <<stored, counters>>
  /\ UNCHANGED <<config_fields, job_config, products, pending, job_status, progress, tracker,
                 site, stored_count, results, stats, matcherVars, adj>>

\* run_job, lines 266-279
MatchEnd ==
  /\ jpc = "match_loop"
  /\ idx >= products["site_a"]
  /\ progress' =
       CompleteStageProgress(tracker,
         [text |-> "Matching complete", detail |-> "",
          counters |-> [counters EXCEPT !.processed = products["site_a"]]])
  /\ jpc' = "mark_completed"
  /\ UNCHANGED <<config_fields, job_config, products, pending, job_status, stored, tracker,
                 site, idx, stored_count, results, counters, stats, error,
                 matcherVars, adj>>

\* run_job, lines 287-301
Statistics(rs) ==
  LET no_match_count == Cardinality({i \in 1 .. Len(rs) : rs[i].is_no_match})
  IN [matches_found |-> Len(rs) - no_match_count,
      no_match |-> no_match_count,
      high_confidence |->
        Cardinality({i \in 1 .. Len(rs) :
                       /\ ~rs[i].is_no_match
                       /\ rs[i].best_match.id # 0
                       /\ rs[i].best_match.score >= 8000})]

\* run_job, lines 282-301
MarkCompleted ==
  /\ jpc = "mark_completed"
  /\ job_status' = "completed"
  /\ stats' = Statistics(results)
  /\ jpc' = "finish"
  /\ UNCHANGED <<config_fields, job_config, products, pending, stored, progress, tracker, site,
                 idx, stored_count, results, counters, error, matcherVars, adj>>

\* run_job, lines 304-321: CrawlJobUpdate and JobConfig are no names of the
\* module, so the metrics are not written and the NameError is logged
FinishJob ==
  /\ jpc = "finish"
  /\ progress' = FinishJobProgress(Message("Completed"))
  /\ job_config' = job_config
  /\ jpc' = "returned"
  /\ UNCHANGED <<config_fields, products, pending, job_status, stored, tracker,
                 site, idx, stored_count, results, counters, stats, error,
                 matcherVars, adj>>

\* run_job, lines 323-327
HandlerFail ==
  /\ jpc = "except"
  /\ progress' = FailProgress(tracker, error)
  /\ jpc' = "except_status"
  /\ UNCHANGED <<config_fields, job_config, products, pending, job_status, stored, tracker,
                 site, idx, stored_count, results, counters, stats, error,
                 matcherVars, adj>>

\* run_job, lines 329-330
HandlerStatus ==
  /\ jpc = "except_status"
  /\ job_status' = "failed"
  /\ jpc' = "raised"
  /\ UNCHANGED <<config_fields, job_config, products, pending, stored, progress, tracker, site,
                 idx, stored_count, results, counters, stats, error, matcherVars,
                 adj>>

\* quick-match requests served beside the run
MaxQuick == 1

\* quick_match (routers/quick_match.py lines 34-49): a request takes the matcher
\* get_matcher_v2_service() holds, which is the one the run works with (the
\* runner took it at line 47 and replaces it at line 162), and calls
\* match_product on it; arbitration is off on it, nothing is stored
QuickMatch ==
  /\ jpc \notin {"none"}
  /\ metrics.total_matches < MaxProducts + MaxQuick
  /\ metrics' = [metrics EXCEPT !.total_matches = @ + 1]
  /\ UNCHANGED <<config, validator_enabled, ai_validations_used, vmetrics, mpc,
                 scored_candidates, pre_ranked, search, ai_response, result, adj,
                 jobVars>>

NextJob ==
  \/ StartRun
  \/ GetProducts
  \/ CrawlBegin
  \/ \E throttled, updated \in BOOLEAN : CrawlItem(throttled, updated)
  \/ CrawlEnd
  \/ CrawlError
  \/ ConfigureMatcher
  \/ EmbedBegin
  \/ \E n \in 0 .. MaxProducts, raises \in BOOLEAN : EmbedBatch(n, raises)
  \/ EmbedComplete
  \/ MatchBegin
  \/ \E throttled \in BOOLEAN : MatchProgress(throttled)
  \/ \E rows \in JobRows, raises \in BOOLEAN : MatchCall(rows, raises)
  \/ \E ok, auto \in BOOLEAN : StoreResult(ok, auto)
  \/ MatchEnd
  \/ MarkCompleted
  \/ FinishJob
  \/ HandlerFail
  \/ HandlerStatus
  \/ QuickMatch

\* the matcher in place when a job starts: one built with the default MatcherConfig
MatcherAtStart ==
  /\ InitMatcher
  /\ config = [enable_ai_validation |-> FALSE, window |-> <<7000, 9400>>,
               max_ai_validations_per_job |-> MaxCap]
  /\ ~validator_enabled

\* a matcher just built, no job run
Init == InitMatcher /\ adj = AdjIdle /\ JobIdle

\* match_product on one matcher
Spec == Init /\ [][NextMatcher]_vars

\* candidates one search returns when the top-5 cut is to be exercised
MaxRanked == 6

\* the scores of those candidates
RankScores == {5500, 9000}

\* a matcher whose arbitration is on for every score of RankScores
InitRank ==
  /\ InitMatcher
  /\ config = [enable_ai_validation |-> TRUE, window |-> <<5000, 9700>>,
               max_ai_validations_per_job |-> MaxCap]
  /\ validator_enabled
  /\ adj = AdjIdle
  /\ JobIdle

NextRank ==
  \/ \E found \in SeqsUpTo(RankScores, MaxRanked) : MatchProduct(found, FALSE)
  \/ \E outcome \in LlmOutcomes : LlmReturn(outcome)
  \/ TakeResult

\* match_product on searches that return more than TOP_CANDIDATES candidates
SpecRank == InitRank /\ [][NextRank]_vars

(***************************************************************************)
(* One application of _compute_multi_signal_score.                         *)
(***************************************************************************)
\* the similarities a signal can come to
Sims == {0, 5000, One}

\* MultiCandidateMatcher.__init__, lines 170-182: the weights of the instance;
\* those with the visual signal are taken when image matching is asked for and
\* the image matcher is available
InstanceWeights(enable_image_matching, image_available) ==
  IF enable_image_matching /\ image_available
    THEN [semantic |-> SEMANTIC_WEIGHT_WITH_VISUAL, token |-> TOKEN_WEIGHT_WITH_VISUAL,
          attribute |-> ATTRIBUTE_WEIGHT_WITH_VISUAL, visual |-> VISUAL_WEIGHT_WITH_VISUAL]
    ELSE [semantic |-> SEMANTIC_WEIGHT, token |-> TOKEN_WEIGHT,
          attribute |-> ATTRIBUTE_WEIGHT, visual |-> VISUAL_WEIGHT]

\* _compute_multi_signal_score, lines 553-569: the weight each signal is
\* multiplied by; visual_sim = -1 stands for None
AppliedWeights(w, visual_sim) ==
  [w EXCEPT !.visual = IF visual_sim # -1 /\ w.visual > 0 THEN w.visual ELSE 0]

\* the penalty subtracted with no floor
BrandPenaltyUnfloored(combined) == combined - BRAND_MISMATCH_PENALTY

\* _compute_multi_signal_score, line 579: the brand-mismatch penalty
BrandPenalty(combined) == Max(0, combined - BRAND_MISMATCH_PENALTY)

\* _compute_multi_signal_score; c holds the instance's mode, the similarities of
\* the three text signals, visual_sim, and whether the brand penalty applies
\* (brand ontology on, both canonical brands non-empty and different)
_compute_multi_signal_score(c) ==
  LET w == AppliedWeights(InstanceWeights(c.enable_image_matching, c.image_available),
                          c.visual_sim)
      combined == (c.semantic_sim * w.semantic) \div One
                  + (c.token * w.token) \div One
                  + (c.attribute * w.attribute) \div One
                  + (IF w.visual > 0 THEN (c.visual_sim * w.visual) \div One ELSE 0)
  IN IF c.brand_mismatch THEN BrandPenalty(combined) ELSE combined

\* match_product, lines 349-368: a visual similarity is computed only by an
\* instance that has an image matcher, and only if its config has use_ocr_text
InitScore ==
  /\ adj \in [enable_image_matching : BOOLEAN, image_available : BOOLEAN,
               use_ocr_text : BOOLEAN,
               semantic_sim : Sims, token : Sims, attribute : Sims,
               visual_sim : Sims \cup {-1}, brand_mismatch : BOOLEAN,
               weights : {<<>>}, out : {-1}]
  /\ adj.visual_sim # -1 =>
       (adj.enable_image_matching /\ adj.image_available /\ adj.use_ocr_text)
  /\ MatcherAtStart
  /\ JobIdle

\* match_product, lines 370-372
ComputeScore ==
  /\ adj.out = -1
  /\ adj' = [adj EXCEPT
               !.weights = AppliedWeights(
                  InstanceWeights(adj.enable_image_matching, adj.image_available),
                  adj.visual_sim),
               !.out = _compute_multi_signal_score(adj)]
  /\ UNCHANGED <<matcherVars, jobVars>>

\* _compute_multi_signal_score on every combination of signals
SpecScore == InitScore /\ [][ComputeScore]_vars

(***************************************************************************)
(* _canonicalize_brand, applied to a brand and again to its result.        *)
(***************************************************************************)
\* entries of the alias table
MaxAliasEntries == 2

\* a string is a word and whether it is written in that word's lower-case,
\* stripped form (folded) or in another case or with blanks around it
Words == {"nike", "puma"}
Strings == [word : Words, folded : BOOLEAN]

\* str.lower().strip()
LowerStrip(x) == [x EXCEPT !.folded = TRUE]

\* brand_aliases.json as json.load gives it: the canonical keys in file order,
\* each with its list of aliases; a dict holds a key once (n entries at most)
AliasTables(n) ==
  {t \in SeqsUpTo([canon : Strings, aliases : SUBSET Strings], n) :
     \A i, j \in 1 .. Len(t) : i # j => t[i].canon # t[j].canon}

\* _canonicalize_brand, lines 691-694: the first entry, in dict order, whose key
\* or aliases hold b; 0 for none
RECURSIVE FirstEntry(_, _, _)
FirstEntry(t, b, i) ==
  IF i > Len(t) THEN 0
  ELSE IF b = t[i].canon \/ b \in t[i].aliases THEN i
  ELSE FirstEntry(t, b, i + 1)

\* MultiCandidateMatcher._canonicalize_brand with the table loaded (the count
\* of alias_hits is left out)
_canonicalize_brand(t, brand) ==
  LET b == LowerStrip(brand)
  IN IF \E i \in 1 .. Len(t) : t[i].canon = b THEN b
     ELSE IF FirstEntry(t, b, 1) # 0 THEN t[FirstEntry(t, b, 1)].canon
     ELSE b

NoString == [word |-> "", folded |-> TRUE]

InitBrand ==
  /\ adj \in [table : AliasTables(MaxAliasEntries), brand : Strings, once : {NoString},
               twice : {NoString}]
  /\ MatcherAtStart
  /\ JobIdle

\* _attribute_match and _compute_multi_signal_score canonicalize a brand
CanonicalizeOnce ==
  /\ adj.once = NoString
  /\ adj' = [adj EXCEPT !.once = _canonicalize_brand(adj.table, adj.brand)]
  /\ UNCHANGED <<matcherVars, jobVars>>

\* the canonical brand canonicalized again
CanonicalizeTwice ==
  /\ adj.once # NoString /\ adj.twice = NoString
  /\ adj' = [adj EXCEPT !.twice = _canonicalize_brand(adj.table, adj.once)]
  /\ UNCHANGED <<matcherVars, jobVars>>

NextBrand == CanonicalizeOnce \/ CanonicalizeTwice

\* _canonicalize_brand on every brand and alias table
SpecBrand == InitBrand /\ [][NextBrand]_vars

(***************************************************************************)
(* The ProgressTracker of one job under any sequence of calls.             *)
(***************************************************************************)
\* positions and totals a caller passes
MaxPosition == 3

\* the stages a caller starts
WorkStages == {"crawling_site_a", "matching"}

\* round(x, 1) of x = num / den, in tenths: the nearest tenth, a tie to the even
RoundTenths(num, den) ==
  LET q == (10 * num) \div den
      r == (10 * num) % den
  IN IF 2 * r > den \/ (2 * r = den /\ q % 2 = 1) THEN q + 1 ELSE q

\* JobProgress.percentage, in tenths of a percent
percentage(p) ==
  IF p.total = 0 THEN 0 ELSE RoundTenths(p.current * 100, p.total)

InitTrackerOnly ==
  /\ adj = AdjIdle
  /\ MatcherAtStart
  /\ JobIdle

\* ProgressTracker.start_stage
start_stage(stage, total) ==
  /\ tracker' = StartStageTracker(tracker, stage, total)
  /\ progress' = StartStageProgress(stage, total, Message("Starting..."))
  /\ UNCHANGED <<matcherVars, adj, config_fields, job_config, products, pending, job_status,
                 stored, jpc, site, idx, stored_count, results, counters, stats,
                 error>>

\* ProgressTracker.update_progress
update_progress(current, force, throttled) ==
  /\ MayThrottle(tracker, force, throttled)
  /\ tracker' = UpdateTracker(tracker, current, throttled)
  /\ progress' = UpdateProgress(tracker, progress, current, Message(""), throttled)
  /\ UNCHANGED <<matcherVars, adj, config_fields, job_config, products, pending, job_status,
                 stored, jpc, site, idx, stored_count, results, counters, stats,
                 error>>

\* ProgressTracker.increment
increment(throttled) ==
  /\ tracker.items_processed < MaxPosition
  /\ update_progress(tracker.items_processed + 1, FALSE, throttled)

\* ProgressTracker.complete_stage
complete_stage ==
  /\ progress' = CompleteStageProgress(tracker, Message("Complete"))
  /\ UNCHANGED <<matcherVars, adj, config_fields, job_config, products, pending, job_status,
                 stored, tracker, jpc, site, idx, stored_count, results, counters,
                 stats, error>>

\* ProgressTracker.fail
fail ==
  /\ progress' = FailProgress(tracker, "error")
  /\ UNCHANGED <<matcherVars, adj, config_fields, job_config, products, pending, job_status,
                 stored, tracker, jpc, site, idx, stored_count, results, counters,
                 stats, error>>

\* ProgressTracker.finish_job
finish_job ==
  /\ progress' = FinishJobProgress(Message("Job completed successfully"))
  /\ UNCHANGED <<matcherVars, adj, config_fields, job_config, products, pending, job_status,
                 stored, tracker, jpc, site, idx, stored_count, results, counters,
                 stats, error>>

NextTracker ==
  \/ \E stage \in WorkStages, total \in 0 .. MaxPosition : start_stage(stage, total)
  \/ \E current \in 0 .. MaxPosition, force, throttled \in BOOLEAN :
       update_progress(current, force, throttled)
  \/ \E throttled \in BOOLEAN : increment(throttled)
  \/ complete_stage
  \/ fail
  \/ finish_job

\* one ProgressTracker called in any order
SpecTracker == InitTrackerOnly /\ [][NextTracker]_vars

(***************************************************************************)
(* The ProgressTracker and the clock it reads: which calls write.          *)
(***************************************************************************)
\* the clock runs to MaxClock, in tenths of a second
MaxClock == 11

\* ProgressTracker._update_interval, in tenths of a second
_update_interval == 5

\* no time recorded yet (_last_update_time is None)
NoTime == -1

NoCall == [name |-> "none", at |-> NoTime]

\* update_progress always answering that the interval has passed
ThrottledNever(last_update_time, now, force) == FALSE

\* update_progress, lines 196-201: the call returns without writing
Throttled(last_update_time, now, force) ==
  /\ ~force
  /\ last_update_time # NoTime
  /\ now - last_update_time < _update_interval

\* the last two entries of a log
LastTwo(log) == IF Len(log) > 2 THEN SubSeq(log, Len(log) - 1, Len(log)) ELSE log

\* adj is the clock (now), the tracker's _last_update_time, the call made last,
\* the write that reached the store last and the last two writes of
\* update_progress
InitClock ==
  /\ adj = [now |-> 0, last_update_time |-> NoTime, last_call |-> NoCall,
            last_write |-> NoCall, update_writes |-> <<>>]
  /\ MatcherAtStart
  /\ JobIdle

\* datetime.utcnow() read later
Tick ==
  /\ adj.now < MaxClock
  /\ adj' = [adj EXCEPT !.now = @ + 1]
  /\ UNCHANGED <<matcherVars, jobVars>>

\* a call that writes whenever it is made
WritesAlways(name, t, p) ==
  /\ tracker' = t
  /\ progress' = p
  /\ adj' = [adj EXCEPT !.last_call = [name |-> name, at |-> adj.now],
                        !.last_write = [name |-> name, at |-> adj.now]]
  /\ UNCHANGED <<matcherVars, config_fields, job_config, products, pending, job_status,
                 stored, jpc, site, idx, stored_count, results, counters, stats,
                 error>>

\* ProgressTracker.start_stage at the time adj.now
StartStageAt(stage, total) ==
  WritesAlways("start_stage", StartStageTracker(tracker, stage, total),
               StartStageProgress(stage, total, Message("Starting...")))

\* ProgressTracker.update_progress at the time adj.now
UpdateProgressAt(current, force) ==
  LET throttled == Throttled(adj.last_update_time, adj.now, force)
      call == [name |-> "update_progress", at |-> adj.now]
  IN /\ tracker' = UpdateTracker(tracker, current, throttled)
     /\ progress' = UpdateProgress(tracker, progress, current, Message(""), throttled)
     /\ adj' = IF throttled
               THEN [adj EXCEPT !.last_call = call]
               ELSE [adj EXCEPT !.last_call = call,
                                !.last_write = call,
                                !.last_update_time = adj.now,
                                !.update_writes =
                                   LastTwo(Append(@, [at |-> adj.now, force |-> force]))]
     /\ UNCHANGED <<matcherVars, config_fields, job_config, products, pending, job_status,
                    stored, jpc, site, idx, stored_count, results, counters, stats,
                    error>>

\* ProgressTracker.complete_stage at the time adj.now
CompleteStageAt ==
  WritesAlways("complete_stage", tracker,
               CompleteStageProgress(tracker, Message("Complete")))

\* ProgressTracker.fail at the time adj.now
FailAt == WritesAlways("fail", tracker, FailProgress(tracker, "error"))

\* ProgressTracker.finish_job at the time adj.now
FinishJobAt ==
  WritesAlways("finish_job", tracker,
               FinishJobProgress(Message("Job completed successfully")))

NextClock ==
  \/ Tick
  \/ StartStageAt("matching", 1)
  \/ \E force \in BOOLEAN : UpdateProgressAt(1, force)
  \/ CompleteStageAt
  \/ FailAt
  \/ FinishJobAt

\* one ProgressTracker called in any order at any times
SpecClock == InitClock /\ [][NextClock]_vars

(***************************************************************************)
(* One job's progress written and read from several processes, each with   *)
(* its own ProgressTracker._progress cache, over one store.                *)
(***************************************************************************)
\* positions a writer writes
MaxWritten == 2

\* the server processes
Procs == {"p1", "p2"}

\* no entry for the job (cache miss, no row, None returned)
NoEntry == [stage |-> "none", current |-> 0, total |-> 0, message |-> Message("")]

NoRead == [proc |-> "none", value |-> NoEntry, latest |-> NoEntry]

\* adj is each process's _progress entry for the job, the job's row in the
\* store, the state written last and what the last get returned
InitReaders ==
  /\ adj = [cache |-> [q \in Procs |-> NoEntry], store |-> NoEntry,
            written |-> NoEntry, got |-> NoRead]
  /\ MatcherAtStart
  /\ JobIdle

\* ProgressTracker._persist (and ProgressTracker.update) in process q: the entry
\* of q's cache and the row of the store
PersistIn(q, current) ==
  LET p == Persist("matching", current, MaxWritten, Message(""))
  IN /\ adj' = [adj EXCEPT !.cache[q] = p, !.store = p, !.written = p]
     /\ UNCHANGED <<matcherVars, jobVars>>

\* ProgressTracker.get in process q: the cache entry if there is one, the row of
\* the store otherwise
get(q) ==
  /\ adj' = [adj EXCEPT !.got =
               [proc |-> q,
                value |-> IF adj.cache[q] # NoEntry THEN adj.cache[q] ELSE adj.store,
                latest |-> adj.written]]
  /\ UNCHANGED <<matcherVars, jobVars>>

NextReaders ==
  \/ \E q \in Procs, current \in 0 .. MaxWritten : PersistIn(q, current)
  \/ \E q \in Procs : get(q)

\* writers and readers of one job's progress in several processes
SpecReaders == InitReaders /\ [][NextReaders]_vars

(***************************************************************************)
(* The crawler's ProgressTracker (crawler/progress_tracker.py): its state, *)
(* the progress.json it saves, and its use as a context manager.           *)
(***************************************************************************)
\* report_error calls made by the caller
MaxErrors == 2

\* the sites crawled
CrawlSites == {"nykaa", "purplle"}

\* ProgressTracker._save_state: what progress.json holds after it
_save_state(status, errors) == [status |-> status, errors |-> errors]

\* start_crawl, lines 283-284
StartCrawlStatus(status) == IF status = "idle" THEN "crawling" ELSE status

\* start_matching moving on only a tracker that is crawling
StartMatchingOnlyFromCrawling(status) ==
  IF status = "crawling" THEN "matching" ELSE status

\* start_matching, line 376
StartMatchingStatus(status) == "matching"

\* __exit__ leaving the status as it is when an exception leaves the block
ExitKeepsStatus(raised, status) == IF raised THEN status ELSE "completed"

\* __exit__: the status it leaves (ERROR on an exception; otherwise complete()
\* unless the tracker is completed already)
ExitStatus(raised, status) ==
  IF raised THEN "error"
  ELSE IF status # "completed" THEN "completed" ELSE status

\* adj is the tracker: state.status, the number of state.errors, the status of
\* each site of self.sites, progress.json (file), whether the tracker is the
\* subject of a with block (ctx), the operation that returned last (last_op),
\* the status it found (before), the report_error calls made (reported) and the
\* errors_count of the summary complete returned (-1 for none)
InitCrawlTracker ==
  /\ adj \in [status : {"idle"}, errors : {0},
               sites : {[n \in CrawlSites |-> "absent"]},
               file : {_save_state("idle", 0)},
               ctx : {"none", "inside"}, last_op : {"init"}, before : {"idle"},
               reported : {0}, summary : {-1}]
  /\ MatcherAtStart
  /\ JobIdle

\* the tracker is in use: not yet left as a context manager
InUse == adj.ctx \in {"none", "inside"}

\* ProgressTracker.start_crawl
start_crawl(site_name) ==
  /\ InUse
  /\ LET st == StartCrawlStatus(adj.status)
     IN adj' = [adj EXCEPT !.sites[site_name] = "crawling", !.status = st,
                           !.file = _save_state(st, adj.errors),
                           !.last_op = "start_crawl", !.before = adj.status]
  /\ UNCHANGED <<matcherVars, jobVars>>

\* ProgressTracker.update_crawl: returns before saving for a site not started
update_crawl(site_name) ==
  /\ InUse
  /\ adj' = [adj EXCEPT !.file = IF adj.sites[site_name] = "absent" THEN @
                                 ELSE _save_state(adj.status, adj.errors),
                        !.last_op = "update_crawl", !.before = adj.status]
  /\ UNCHANGED <<matcherVars, jobVars>>

\* ProgressTracker.complete_crawl
complete_crawl(site_name) ==
  /\ InUse
  /\ adj' = [adj EXCEPT !.sites[site_name] =
                           IF @ = "absent" THEN @ ELSE "completed",
                        !.file = _save_state(adj.status, adj.errors),
                        !.last_op = "complete_crawl", !.before = adj.status]
  /\ UNCHANGED <<matcherVars, jobVars>>

\* ProgressTracker.start_matching
start_matching ==
  /\ InUse
  /\ LET st == StartMatchingStatus(adj.status)
     IN adj' = [adj EXCEPT !.status = st, !.file = _save_state(st, adj.errors),
                           !.last_op = "start_matching", !.before = adj.status]
  /\ UNCHANGED <<matcherVars, jobVars>>

\* ProgressTracker.update_matching
update_matching ==
  /\ InUse
  /\ adj' = [adj EXCEPT !.file = _save_state(adj.status, adj.errors),
                        !.last_op = "update_matching", !.before = adj.status]
  /\ UNCHANGED <<matcherVars, jobVars>>

\* ProgressTracker.report_error
report_error ==
  /\ InUse
  /\ adj.reported < MaxErrors
  /\ adj' = [adj EXCEPT !.errors = @ + 1, !.reported = @ + 1,
                        !.file = _save_state(adj.status, adj.errors + 1),
                        !.last_op = "report_error", !.before = adj.status]
  /\ UNCHANGED <<matcherVars, jobVars>>

\* ProgressTracker.complete: the summary it returns counts state.errors
complete ==
  /\ InUse
  /\ adj' = [adj EXCEPT !.status = "completed",
                        !.file = _save_state("completed", adj.errors),
                        !.summary = adj.errors,
                        !.last_op = "complete", !.before = adj.status]
  /\ UNCHANGED <<matcherVars, jobVars>>

\* ProgressTracker.__exit__: the with block is left, by an exception (raised)
\* or at its end; report_error of the exception, then the status, then the save
ExitContext(raised) ==
  /\ adj.ctx = "inside"
  /\ LET st == ExitStatus(raised, adj.status)
         n == IF raised THEN adj.errors + 1 ELSE adj.errors
     IN adj' = [adj EXCEPT !.status = st, !.errors = n,
                           !.reported = IF raised THEN @ + 1 ELSE @,
                           !.file = _save_state(st, n),
                           !.summary = IF ~raised /\ adj.status # "completed"
                                         THEN adj.errors ELSE @,
                           !.ctx = IF raised THEN "raised" ELSE "left",
                           !.last_op = "__exit__", !.before = adj.status]
  /\ UNCHANGED <<matcherVars, jobVars>>

NextCrawlTracker ==
  \/ \E site_name \in CrawlSites : start_crawl(site_name)
  \/ \E site_name \in CrawlSites : update_crawl(site_name)
  \/ \E site_name \in CrawlSites : complete_crawl(site_name)
  \/ start_matching
  \/ update_matching
  \/ report_error
  \/ complete
  \/ \E raised \in BOOLEAN : ExitContext(raised)

\* one crawler ProgressTracker, used with or without a with block
SpecCrawlTracker == InitCrawlTracker /\ [][NextCrawlTracker]_vars

(***************************************************************************)
(* Token overlap: ProductMatcher.jaccard_similarity (url_mapper.py) and the *)
(* token term of _compute_multi_signal_score.                              *)
(***************************************************************************)
\* the tokens titles are made of
TitleTokens == {"maybelline", "fit", "me", "lakme"}

\* the overlap taken over the first set instead of the union
JaccardOverFirst(set1, set2) ==
  IF set1 = {} \/ set2 = {} THEN 0
  ELSE (Cardinality(set1 \cap set2) * One) \div Cardinality(set1)

\* ProductMatcher.jaccard_similarity
jaccard_similarity(set1, set2) ==
  IF set1 = {} \/ set2 = {} THEN 0
  ELSE LET intersection == Cardinality(set1 \cap set2)
           union == Cardinality(set1 \cup set2)
       IN IF union > 0 THEN (intersection * One) \div union ELSE 0

\* _compute_multi_signal_score, lines 559-563: the token overlap before its weight
TokenOverlap(source_tokens, target_tokens) ==
  LET intersection == Cardinality(source_tokens \cap target_tokens)
      union == Cardinality(source_tokens \cup target_tokens)
  IN IF union # 0 THEN (intersection * One) \div union ELSE 0

\* adj is the two token sets and, once applied, the similarity, the similarity
\* of the two sets swapped and the matcher's token overlap (-1 before)
InitJaccard ==
  /\ adj \in [set1 : SUBSET TitleTokens, set2 : SUBSET TitleTokens,
               sim : {-1}, swapped : {-1}, overlap : {-1}]
  /\ MatcherAtStart
  /\ JobIdle

ApplyJaccard ==
  /\ adj.sim = -1
  /\ adj' = [adj EXCEPT !.sim = jaccard_similarity(adj.set1, adj.set2),
                        !.swapped = jaccard_similarity(adj.set2, adj.set1),
                        !.overlap = TokenOverlap(adj.set1, adj.set2)]
  /\ UNCHANGED <<matcherVars, jobVars>>

\* the token overlap of every pair of token sets
SpecJaccard == InitJaccard /\ [][ApplyJaccard]_vars

(***************************************************************************)
(* ProductCrawler.crawl_batch (crawler.py): one task per URL, each running  *)
(* crawl_product inside a semaphore of max_concurrent permits, gathered in  *)
(* the order of the URLs.                                                   *)
(***************************************************************************)
MaxUrls == 4
MaxConcurrent == 3

\* a result not produced yet
NotReturned == "none"

\* crawl_batch has returned its list
Gathered(a) == a.gathered

\* a semaphore that lets every task in
EnterAlways(a) == TRUE

\* async with semaphore: a task enters while a permit is left
EnterSemaphore(a) == a.semaphore > 0

\* the URLs whose crawl_product call has started and not returned
InFlight(a) == {i \in 1 .. a.urls : a.task[i] = "in_flight"}

\* adj is one call of crawl_batch: the number of URLs, the crawler's
\* max_concurrent, the semaphore's value, each task's position, each task's
\* result, whether crawl_batch has returned and the list it returned
InitBatch ==
  /\ \E n \in 0 .. MaxUrls, m \in 1 .. MaxConcurrent :
       adj = [urls |-> n, max_concurrent |-> m, semaphore |-> m,
              task |-> [i \in 1 .. n |-> "waiting"],
              result |-> [i \in 1 .. n |-> NotReturned],
              gathered |-> FALSE, returned |-> <<>>]
  /\ MatcherAtStart
  /\ JobIdle

\* task index enters the semaphore and calls crawl_product
CrawlStart(index) ==
  /\ index \in 1 .. adj.urls
  /\ adj.task[index] = "waiting"
  /\ EnterSemaphore(adj)
  /\ adj' = [adj EXCEPT !.semaphore = @ - 1, !.task[index] = "in_flight"]
  /\ UNCHANGED <<matcherVars, jobVars>>

\* crawl_product of task index returns its ProductData, extracted or failed,
\* and the task leaves the semaphore
crawl_with_semaphore(index, success) ==
  /\ index \in 1 .. adj.urls
  /\ adj.task[index] = "in_flight"
  /\ adj' = [adj EXCEPT !.semaphore = @ + 1, !.task[index] = "done",
                        !.result[index] = IF success THEN "data" ELSE "failed"]
  /\ UNCHANGED <<matcherVars, jobVars>>

\* asyncio.gather returns once every task is done, results in URL order
crawl_batch ==
  /\ ~Gathered(adj)
  /\ \A i \in 1 .. adj.urls : adj.task[i] = "done"
  /\ adj' = [adj EXCEPT !.gathered = TRUE,
                        !.returned = [i \in 1 .. adj.urls |-> adj.result[i]]]
  /\ UNCHANGED <<matcherVars, jobVars>>

NextBatch ==
  \/ \E index \in 1 .. MaxUrls : CrawlStart(index)
  \/ \E index \in 1 .. MaxUrls, success \in BOOLEAN : crawl_with_semaphore(index, success)
  \/ crawl_batch

\* one call of crawl_batch under every interleaving of its tasks
SpecBatch == InitBatch /\ [][NextBatch]_vars /\ WF_vars(NextBatch)

(***************************************************************************)
(* The run and run-background endpoints of one job (routers/jobs.py) under  *)
(* concurrent requests.                                                     *)
(***************************************************************************)
\* the requests in flight for the job
RunRequests == {"r1", "r2"}

\* the runs of the job that are executing
Executing(a) == {r \in RunRequests : a.pc[r] = "running"}

\* adj is the job's status in the store, each request's endpoint and each
\* request's position
InitRequests ==
  /\ \E kinds \in [RunRequests -> {"run", "run_background"}],
         status \in {"pending", "completed", "failed"} :
       adj = [status |-> status, endpoint |-> kinds,
              pc |-> [r \in RunRequests |-> "arrived"]]
  /\ MatcherAtStart
  /\ JobIdle

\* run_job, lines 221-225: the job is read and a running job is refused
RunCheck(r) ==
  /\ adj.pc[r] = "arrived"
  /\ adj.endpoint[r] = "run"
  /\ adj' = [adj EXCEPT !.pc[r] = IF adj.status = "running" THEN "rejected"
                                   ELSE "accepted"]
  /\ UNCHANGED <<matcherVars, jobVars>>

\* run_job, lines 228-232: the status is set to running
RunUpdateStatus(r) ==
  /\ adj.pc[r] = "accepted"
  /\ adj' = [adj EXCEPT !.status = "running", !.pc[r] = "creating"]
  /\ UNCHANGED <<matcherVars, jobVars>>

\* run_job_in_background, lines 435-451: the job is read, a running or
\* completed job is refused, otherwise the task is added and the response sent
run_job_in_background(r) ==
  /\ adj.pc[r] = "arrived"
  /\ adj.endpoint[r] = "run_background"
  /\ adj' = [adj EXCEPT !.pc[r] = IF adj.status \in {"running", "completed"}
                                   THEN "rejected" ELSE "scheduled"]
  /\ UNCHANGED <<matcherVars, jobVars>>

\* JobRunner.run_job begins, called by run_job once the products are created
\* or by run_job_background: its first step sets the status to running
StartJobRunner(r) ==
  /\ adj.pc[r] \in {"creating", "scheduled"}
  /\ adj' = [adj EXCEPT !.status = "running", !.pc[r] = "running"]
  /\ UNCHANGED <<matcherVars, jobVars>>

\* JobRunner.run_job ends, completed or failed
EndJobRunner(r, completed) ==
  /\ adj.pc[r] = "running"
  /\ adj' = [adj EXCEPT !.status = IF completed THEN "completed" ELSE "failed",
                        !.pc[r] = "done"]
  /\ UNCHANGED <<matcherVars, jobVars>>

NextRequests ==
  \/ \E r \in RunRequests : RunCheck(r)
  \/ \E r \in RunRequests : RunUpdateStatus(r)
  \/ \E r \in RunRequests : run_job_in_background(r)
  \/ \E r \in RunRequests : StartJobRunner(r)
  \/ \E r \in RunRequests, completed \in BOOLEAN : EndJobRunner(r, completed)

\* two requests to run the same job, interleaved at their awaits
SpecRequests == InitRequests /\ [][NextRequests]_vars

\* the arguments of one application of _adjust_score
InitAdjustOnly == InitAdjust /\ MatcherAtStart /\ JobIdle

\* _adjust_score and _get_confidence_tier on every score of the grid
SpecAdjust == InitAdjustOnly /\ [][NextAdjust]_vars

\* a job about to run, with the matcher in place
InitJobRun == InitJob /\ MatcherAtStart /\ adj = AdjIdle

\* one run of run_job
SpecJob == InitJobRun /\ [][NextJob]_vars

\* a job with products on both sides about to run
InitJobClean ==
  /\ InitJobRun
  /\ \A s \in Sites : products[s] > 0

\* the steps of a run in which no call to the store, the crawler, the embedding
\* model or the matcher raises, and no other request uses the matcher
NextJobClean ==
  \/ StartRun
  \/ GetProducts
  \/ CrawlBegin
  \/ \E throttled \in BOOLEAN : CrawlItem(throttled, TRUE)
  \/ CrawlEnd
  \/ ConfigureMatcher
  \/ EmbedBegin
  \/ EmbedBatch(products["site_b"], FALSE)
  \/ EmbedComplete
  \/ MatchBegin
  \/ \E throttled \in BOOLEAN : MatchProgress(throttled)
  \/ \E rows \in JobRows : MatchCall(rows, FALSE)
  \/ \E auto \in BOOLEAN : StoreResult(TRUE, auto)
  \/ MatchEnd
  \/ MarkCompleted
  \/ FinishJob
  \/ HandlerFail
  \/ HandlerStatus

\* one run of run_job with no collaborator failing; run_job is one coroutine
\* that goes on to its next statement whenever it has one
SpecJobClean == InitJobClean /\ [][NextJobClean]_vars /\ WF_vars(NextJobClean)

\* a job with products on both sides, some of them pending, about to run
InitJobCrawl ==
  /\ InitJobClean
  /\ \E s \in Sites : pending[s] > 0

\* the steps of a run in which the crawl or the update of a pending product may
\* fail and nothing else does
NextJobCrawl ==
  \/ NextJobClean
  \/ \E throttled \in BOOLEAN : CrawlItem(throttled, FALSE)

\* one run of run_job whose only failures are those of single pending products
SpecJobCrawl == InitJobCrawl /\ [][NextJobCrawl]_vars /\ WF_vars(NextJobCrawl)

(***************************************************************************)
(* Claims about match_product and the arbitration gate.                    *)
(***************************************************************************)
Returned == mpc = "returned" /\ pre_ranked # <<>>

\* the score of the candidate match_product ends with as best: the best of the
\* final ranking, or the rank-1 score when the result is a no-match
FinalBestScore ==
  IF result.best_match.id # 0 THEN result.best_match.score ELSE pre_ranked[1].score

Cap == Max(0, config.max_ai_validations_per_job)

InWindow(score) == config.window[1] <= score /\ score <= config.window[2]

\* C1: a MatchResult whose final best score is below 0.50 has is_no_match = true
\* and an empty top-5 list, for every configuration and arbitration outcome.
C1_BelowThresholdIsNoMatch ==
  (Returned /\ FinalBestScore < NO_MATCH_THRESHOLD)
    => (result.is_no_match /\ result.top_5_candidates = <<>>)

\* C2: within one job run the number of calls issued to the arbitration service
\* never exceeds the configured cap (max_ai_validations_per_job).
C2_CallsIssuedWithinCap == vmetrics.total_validations <= Cap

\* C3: a call to the arbitration service is in flight only if arbitration is
\* enabled and the best candidate's score lies inside the configured window.
C3_CallOnlyInsideWindow ==
  mpc = "llm"
    => (config.enable_ai_validation /\ InWindow(scored_candidates[1].score))

\* C3 witness: a call is in flight.
C3_CallInFlight == mpc = "llm" /\ vmetrics.total_validations = 1

\* C4: every attempted eligible arbitration call increments the per-job call
\* counter by one, whatever its outcome (CONFIRMED, REJECTED, UNCERTAIN, or a
\* failed call).
C4_EveryCallCounted ==
  [][(mpc = "llm" /\ mpc' # "llm") => ai_validations_used' = ai_validations_used + 1]_vars

(***************************************************************************)
(* Claims about the score adjustment.                                      *)
(***************************************************************************)
\* C5: the adjustment returns min(1, s + 0.08 c) on CONFIRMED, max(0, s - 0.15 c)
\* on REJECTED and s on any other verdict; the result stays in [0, 1], CONFIRMED
\* never lowers the score, REJECTED never raises it, and 0.75 confirmed with
\* confidence 1.0 gives 0.83.
C5_AdjustedScore ==
  adj.out # -1 =>
    LET s == adj.score
        c == adj.validation.confidence
        k == adj.validation.kind
    IN /\ k = "confirmed" => adj.out = Min(One, s + (8 * c) \div 100)
       /\ k = "rejected" => adj.out = Max(0, s - (15 * c) \div 100)
       /\ k \notin {"confirmed", "rejected"} => adj.out = s
       /\ 0 <= adj.out /\ adj.out <= One
       /\ k = "confirmed" => adj.out >= s
       /\ k = "rejected" => adj.out <= s
       /\ (k = "confirmed" /\ s = 7500 /\ c = One) => adj.out = 8300

\* C5 witness: 0.75 confirmed with confidence 1.0 was adjusted to 0.83.
C5_BoostExample ==
  /\ adj.score = 7500
  /\ adj.validation = [kind |-> "confirmed", confidence |-> One]
  /\ adj.out = 8300

(***************************************************************************)
(* Claims about match_product when the arbitration gives no verdict.       *)
(***************************************************************************)
\* the arbitration left no verdict that may move the score
NoMovingVerdict == ai_response.result \in {"uncertain", SKIPPED}

\* C6: when the arbitration returns UNCERTAIN, is skipped or unavailable, or
\* raises, match_product returns a MatchResult whose best candidate, best score,
\* top-5 order and tier are those computed before arbitration.
C6_NoVerdictKeepsRanking ==
  (Returned /\ NoMovingVerdict) =>
     /\ result.source = "src"
     /\ ~result.is_no_match
     /\ result.best_match = pre_ranked[1]
     /\ result.top_5_candidates = TopSlice(pre_ranked)
     /\ result.confidence_tier = _get_confidence_tier(pre_ranked[1].score)

\* C6 witness: an UNCERTAIN verdict with full confidence was returned after a
\* call that raised.
C6_UncertainReturned ==
  /\ Returned
  /\ ai_response.result = "uncertain" /\ ai_response.confidence = One
  /\ vmetrics.errors >= 1

(***************************************************************************)
(* Claims about run_job and its progress.                                  *)
(***************************************************************************)
\* the place of a stage in the order of ProgressStage, the terminal pair last
StageRank(stage) ==
  CASE stage = "pending" -> 0
    [] stage = "started" -> 1
    [] stage = "crawling_site_a" -> 2
    [] stage = "crawling_site_b" -> 3
    [] stage = "generating_embeddings" -> 4
    [] stage = "matching" -> 5
    [] stage \in TerminalStages -> 6

Ended == jpc \in {"returned", "raised"}

\* the stage never moves back, and a run that has ended left a terminal stage
StageForwardToTerminal ==
  /\ [](Ended => progress.stage \in TerminalStages)
  /\ [][StageRank(progress'.stage) >= StageRank(progress.stage)]_vars

\* C7: the persisted stage only moves forward through started, crawling_site_a,
\* crawling_site_b, generating_embeddings, matching and ends in exactly one
\* terminal stage, completed or failed; after the terminal stage is written no
\* further stage or job status is written by that run.
C7_NothingAfterTerminal ==
  /\ StageForwardToTerminal
  /\ [][progress.stage \in TerminalStages =>
          (progress' = progress /\ job_status' = job_status)]_vars

\* C7 amended: the stage only moves forward and ends in exactly one terminal
\* stage; after the terminal stage is written no further stage is written, and
\* the only job status written after it is FAILED, once, by the exception
\* handler right after it wrote the stage failed.
C7_OnlyFailedStatusAfterTerminal ==
  /\ StageForwardToTerminal
  /\ [][progress.stage \in TerminalStages =>
          /\ progress' = progress
          /\ \/ job_status' = job_status
             \/ /\ progress.stage = "failed"
                /\ job_status = "running"
                /\ job_status' = "failed"
                /\ jpc' = "raised"]_vars

\* C7 witness: the run as the source builds it went through both crawling
\* stages and ended in the stage failed.
C7_FailedAfterCrawling ==
  /\ SourceBuild
  /\ jpc = "raised"
  /\ tracker.current_stage = "crawling_site_b"
  /\ progress.stage = "failed"
  /\ job_status = "failed"

EmptySide == products["site_a"] = 0 \/ products["site_b"] = 0

\* C8: if either side has no products when run_job starts, the run fails with a
\* reason naming the missing side, the job status becomes FAILED, the crawling,
\* embedding and matching stages are never entered and no match is stored.
C8_EmptyCatalogFails ==
  EmptySide =>
    /\ jpc \in {"start", "get_products", "except", "except_status", "raised"}
    /\ progress.stage \in {"pending", "started", "failed"}
    /\ tracker.current_stage \in {"pending", "started"}
    /\ stored = <<>> /\ results = <<>>
    /\ jpc \in {"except", "except_status", "raised"} =>
         error = (IF products["site_a"] = 0
                    THEN "No source products (Site A) found for job"
                    ELSE "No target products (Site B) found for job")
    /\ jpc = "raised" =>
         /\ job_status = "failed"
         /\ progress.stage = "failed"
         /\ progress.message.detail = error

\* C8 witness: a run with source products and no target product has failed.
C8_TargetMissingFailed ==
  /\ products["site_a"] > 0 /\ products["site_b"] = 0
  /\ jpc = "raised"
  /\ job_status = "failed"

\* C9: whenever run_job ends by an exception, the last progress persisted has
\* the stage failed and carries the message of the exception, and the job
\* status is FAILED; no run that has ended leaves a non-terminal stage.
C9_ExceptionLeavesFailed ==
  /\ jpc = "raised" =>
       /\ error # ""
       /\ progress.stage = "failed"
       /\ progress.message.text = "Failed: "
       /\ progress.message.detail = error
       /\ job_status = "failed"
  /\ Ended => progress.stage \in TerminalStages

\* C9 witness: the run as the source builds it ended by the exception of the
\* MatcherConfig call, after a crawl that was cut short by a crawler error.
C9_RaisedAfterCrawlError ==
  /\ SourceBuild
  /\ jpc = "raised"
  /\ error = ConfigError
  /\ tracker.current_stage \in {"crawling_site_a", "crawling_site_b"}
  /\ tracker.items_processed = tracker.total
  /\ idx < tracker.total

C11_EmptySearchIsNoMatch ==
  search \in {"failed", "empty"} =>
    /\ mpc = "returned"
    /\ pre_ranked = <<>> /\ scored_candidates = <<>>
    /\ ai_response = NoResponse
    /\ result.source = "src"
    /\ result.is_no_match
    /\ result.best_match = NoCand
    /\ result.top_5_candidates = <<>>
    /\ result.confidence_tier = "no_match"
    /\ result.no_match_reason = "Empty catalog or no embeddings generated"
    /\ ~result.ai_validated

\* C11 witness: on a matcher whose arbitration is on and has been used, the
\* search of a later item failed and the item was returned as a no-match.
C11_FailedSearchReturned ==
  /\ search = "failed"
  /\ mpc = "returned"
  /\ config.enable_ai_validation /\ validator_enabled
  /\ ai_validations_used = 1
  /\ metrics.total_matches = 2
  /\ result.is_no_match

(***************************************************************************)
(* Claims about the matcher a job run works with.                          *)
(***************************************************************************)
\* the run has built its matcher (line 162) and has not ended
RunHasMatcher ==
  jpc \in {"embed", "embedding", "embedded", "match_begin", "match_loop",
           "match_call", "store", "mark_completed", "finish"}

MatchingDone == jpc \in {"mark_completed", "finish", "returned"}

NonIncreasing(cands) ==
  \A i \in 1 .. Len(cands) - 1 : cands[i].score >= cands[i + 1].score

\* C15: in every MatchResult that is not a no-match, top_5 holds at most 5
\* candidates in non-increasing score order and best_match is its first
\* element, also after an arbitration verdict has changed the best score.
C15_TopFiveSorted ==
  (mpc = "returned" /\ ~result.is_no_match) =>
    /\ Len(result.top_5_candidates) >= 1
    /\ Len(result.top_5_candidates) <= 5
    /\ Len(result.top_5_candidates) = Min(Len(pre_ranked), 5)
    /\ NonIncreasing(result.top_5_candidates)
    /\ result.best_match = result.top_5_candidates[1]
    /\ \A i, j \in 1 .. Len(result.top_5_candidates) :
          i # j => result.top_5_candidates[i].id # result.top_5_candidates[j].id

\* C15 witness: of six candidates the best was rejected, fell behind another
\* one, and the result carries five candidates led by a candidate that was not
\* the best before.
C15_RejectedBestOvertaken ==
  /\ mpc = "returned"
  /\ Len(pre_ranked) = 6
  /\ ai_response.result = "rejected"
  /\ Len(result.top_5_candidates) = 5
  /\ result.best_match.id # pre_ranked[1].id

(***************************************************************************)
(* Claims about the classifier.                                            *)
(***************************************************************************)
TierRank(tier) ==
  CASE tier = "no_match" -> 0
    [] tier = "manual_review" -> 1
    [] tier = "likely_match" -> 2
    [] tier = "good_match" -> 3
    [] tier = "high_confidence" -> 4
    [] tier = "exact_match" -> 5

\* C16: for every score in [0,1] the classifier returns exactly one tier: exact
\* at >= 0.95, high-confidence at >= 0.90, good at >= 0.80, likely at >= 0.70,
\* manual-review at >= 0.50 and no-match below 0.50; the tier rank is
\* non-decreasing in the score.
C16_TierBoundaries ==
  adj.tier # "none" =>
    LET s == adj.score
    IN /\ adj.tier \in Tiers
       /\ adj.tier = "exact_match" <=> s >= 9500
       /\ adj.tier = "high_confidence" <=> (s >= 9000 /\ s < 9500)
       /\ adj.tier = "good_match" <=> (s >= 8000 /\ s < 9000)
       /\ adj.tier = "likely_match" <=> (s >= 7000 /\ s < 8000)
       /\ adj.tier = "manual_review" <=> (s >= 5000 /\ s < 7000)
       /\ adj.tier = "no_match" <=> s < 5000
       /\ \A t \in AdjScores :
            t <= s => TierRank(_get_confidence_tier(t)) <= TierRank(adj.tier)

\* C16 witness: the score 0.95 itself was classified as exact.
C16_BoundaryIsExact == adj.score = 9500 /\ adj.tier = "exact_match"

(***************************************************************************)
(* Claims about the scoring weights.                                       *)
(***************************************************************************)
\* C17: in whichever mode the matcher is constructed (standard or
\* visual-enabled), the semantic, token-overlap, attribute and visual weights
\* it applies to a candidate sum to 1.0.
C17_AppliedWeightsSumToOne ==
  adj.out # -1 =>
    adj.weights.semantic + adj.weights.token + adj.weights.attribute
      + adj.weights.visual = One

C19_PositionNeverDecreases ==
  [][\/ \E stage \in WorkStages, total \in 0 .. MaxPosition : start_stage(stage, total)
     \/ progress'.stage # progress.stage
     \/ progress'.current >= progress.current]_vars

\* C20: the percentage of any progress state the tracker can write is within
\* [0, 100], for every position and total, total = 0 and a position above the
\* total included.
C20_PercentageWithinBounds ==
  percentage(progress) \in 0 .. 1000

\* the calls of the tracker that mark a boundary or an end
BoundaryCalls == {"start_stage", "complete_stage", "fail", "finish_job"}

\* C21: two successive non-forced update_progress calls that both write are at
\* least the update interval apart, while start_stage, complete_stage, fail and
\* finish_job write on every call whatever the time since the last write.
C21_ThrottledWritesApart ==
  /\ \A i \in 1 .. Len(adj.update_writes) - 1 :
       (~adj.update_writes[i].force /\ ~adj.update_writes[i + 1].force)
         => adj.update_writes[i + 1].at - adj.update_writes[i].at >= _update_interval
  /\ adj.last_call.name \in BoundaryCalls => adj.last_write = adj.last_call

\* two non-forced updates written, a boundary call written less than the
\* interval after the second
C21_BoundaryWrittenInsideInterval ==
  /\ Len(adj.update_writes) = 2
  /\ ~adj.update_writes[1].force /\ ~adj.update_writes[2].force
  /\ adj.last_call.name = "complete_stage"
  /\ adj.last_write.name = "complete_stage"
  /\ adj.last_write.at - adj.update_writes[2].at < _update_interval

\* C22: ProgressTracker.get returns the most recently written progress state of
\* the job, also when called from a process other than the writer's, under any
\* interleaving of writes and reads, and also when the reader's process holds an
\* older in-memory entry for the job.
C22_GetReturnsLatest ==
  adj.got # NoRead => adj.got.value = adj.got.latest

C25_ContextExitStatus ==
  /\ adj.ctx = "left" => adj.file.status = "completed"
  /\ adj.ctx = "raised" => (adj.file.status = "error" /\ adj.file.errors >= 1)

\* an exception left the block after complete had been called in it
C25_RaisedAfterComplete ==
  adj.ctx = "raised" /\ adj.before = "completed" /\ adj.summary # -1

C27_TokenOverlapIsJaccard ==
  adj.sim # -1 =>
    /\ (adj.set1 = adj.set2 /\ adj.set1 # {}) => adj.sim = One
    /\ adj.set1 \cap adj.set2 = {} => adj.sim = 0
    /\ (adj.set1 \cap adj.set2 # {} /\ adj.set1 # adj.set2)
         => (0 < adj.sim /\ adj.sim < One)
    /\ adj.sim = adj.swapped
    /\ adj.overlap = adj.sim

\* a partial overlap of sets of different sizes
C27_PartialOverlap ==
  /\ adj.sim # -1
  /\ adj.set1 = {"maybelline", "fit", "me"} /\ adj.set2 = {"maybelline", "lakme"}
  /\ adj.sim = 2500

(***************************************************************************)
(* Claims about a run with nothing failing.                                *)
(***************************************************************************)
\* C28: a run started on a job whose source and target catalogs are both
\* non-empty, with no external collaborator call failing, eventually reaches
\* job status COMPLETED and progress stage completed, having passed through the
\* embedding and matching stages; it never ends failed.
C28_CleanRunCompletes ==
  /\ <>(progress.stage = "generating_embeddings")
  /\ <>(progress.stage = "matching")
  /\ <>(job_status = "completed" /\ progress.stage = "completed")
  /\ [](job_status # "failed")

(***************************************************************************)
(* Claims about what the MatchResult says of the arbitration.              *)
(***************************************************************************)
\* C29: a MatchResult is marked validated (ai_validated true, with a verdict and
\* the pre-arbitration score) only when arbitration returned a definitive
\* CONFIRMED or REJECTED verdict; an ineligible item, an UNCERTAIN verdict and a
\* failed call all yield a result marked not validated with no pre-arbitration
\* score.
C29_ValidatedOnlyOnDefinitiveVerdict ==
  (Returned /\ ~result.is_no_match) =>
    IF ai_response.result \in {"confirmed", "rejected"}
      THEN /\ result.ai_validated
           /\ result.ai_validation_result = ai_response.result
           /\ result.original_score = pre_ranked[1].score
      ELSE /\ ~result.ai_validated
           /\ result.ai_validation_result = "none"
           /\ result.original_score = -1

\* C30: whenever arbitration ran for a source item and returned a verdict, the
\* reasoning text of that verdict is appended to the explanation of the emitted
\* MatchResult, whatever the verdict and whichever candidate ends up as best.
C30_ReasoningInExplanation ==
  (Returned /\ ai_response.result \in Verdicts) =>
    \E i \in 1 .. Len(result.explanation) :
       result.explanation[i] = ai_response.reasoning

(***************************************************************************)
(* Claims about the top-5 list after arbitration.                          *)
(***************************************************************************)
IdsOf(cands) == {cands[i].id : i \in 1 .. Len(cands)}

\* C31: after a score-moving arbitration verdict the top-5 list holds the same
\* five candidates as before arbitration, re-ordered by their updated scores,
\* and best is re-selected as the first of them; no candidate ranked below
\* fifth before arbitration enters the list.
C31_TopFiveKeepsItsCandidates ==
  (Returned /\ ~result.is_no_match /\ Adjusts(pre_ranked, ai_response)) =>
    /\ IdsOf(result.top_5_candidates) = IdsOf(TopSlice(pre_ranked))
    /\ NonIncreasing(result.top_5_candidates)
    /\ result.best_match = result.top_5_candidates[1]

C33_CrawlFailureIsolated ==
  /\ [](jpc \in {"crawl", "crawling"} => (job_status = "running" /\ error = ""))
  /\ [](jpc = "configure" => (tracker.total > 0 /\ idx = tracker.total))
  /\ (jpc = "crawling") ~> (progress.stage = "generating_embeddings")

Round4(score) == ((score * 2 + 1) \div 2)

\* C36: given semantic and visual similarities in [0,1], every score carried by
\* an emitted MatchResult (the best match and each top-5 candidate) and every
\* score persisted for a match lies in [0,1], before and after arbitration and
\* the brand-mismatch penalty.
C36_ScoresInUnitInterval ==
  adj.out # -1 =>
    /\ adj.out \in 0 .. One
    /\ Round4(adj.out) \in 0 .. One
    /\ \A kind \in AdjKinds, confidence \in AdjConfidences :
         LET adjusted == _adjust_score(adj.out, [kind |-> kind, confidence |-> confidence])
         IN adjusted \in 0 .. One /\ Round4(adjusted) \in 0 .. One

\* a candidate with no signal in common and a different brand: the penalty
\* meets its floor
C36_PenaltyAtFloor ==
  /\ adj.out = 0
  /\ adj.brand_mismatch
  /\ adj.semantic_sim = 0 /\ adj.token = 0 /\ adj.attribute = 0

(***************************************************************************)
(* Claims about concurrent run requests.                                   *)
(***************************************************************************)
\* C37: at most one run of a given job is executing at any time: under every
\* interleaving of concurrent run and run-background requests for the same
\* job, a request that arrives while the job is running is rejected and no
\* second run is started.
C37_AtMostOneRun == Cardinality(Executing(adj)) <= 1

(***************************************************************************)
(* Claims about the no-match indicators of a MatchResult.                  *)
(***************************************************************************)
\* C38: in every MatchResult returned by match_product the no-match indicators
\* agree: is_no_match is true exactly when best_match is absent, exactly when
\* top_5 is empty, and exactly when the confidence tier is NO_MATCH.
C38_NoMatchIndicatorsAgree ==
  Returned =>
    /\ result.is_no_match <=> (result.best_match = NoCand)
    /\ result.is_no_match <=> (result.top_5_candidates = <<>>)
    /\ result.is_no_match <=> (result.confidence_tier = "no_match")

(***************************************************************************)
(* Claims about the number of arbitration calls.                           *)
(***************************************************************************)
\* C39: at most one arbitration call is made per source item: when a verdict
\* changes the ranking and a different candidate becomes best, that new best
\* is not sent to arbitration, so the calls made in a job run never exceed the
\* number of source items matched.
C39_OneCallPerItem ==
  /\ [](vmetrics.total_validations <= metrics.total_matches)
  /\ [][mpc = "llm" =>
          (mpc' = "returned" /\ vmetrics'.total_validations = vmetrics.total_validations)]_vars

\* one item matched with one call, whose verdict made another candidate the
\* best: that candidate is returned without a verdict of its own
C39_NewBestNotArbitrated ==
  /\ Returned
  /\ Adjusts(pre_ranked, ai_response)
  /\ result.best_match.id # pre_ranked[1].id
  /\ ~result.best_match.ai_validated
  /\ vmetrics.total_validations = 1
  /\ metrics.total_matches = 1

(***************************************************************************)
(* Claims about the auto-status of a stored match.                         *)
(***************************************************************************)
\* the status the final score of a stored row calls for
StatusByScore(row) ==
  IF row.is_no_match \/ row.score < 5000 THEN "rejected"
  ELSE IF row.score >= 9000 THEN "approved"
  ELSE "pending"

====
